---- MODULE Spec2Model ----
(***************************************************************************)
(* Finverse server: the authentication routes (register, login, me), the   *)
(* bearer-token middleware, the chat relay, and the browser's token        *)
(* storage.  Requests are handled concurrently: every `await` of a handler *)
(* is a point where other requests may run.                                *)
(***************************************************************************)
EXTENDS Naturals, Integers, FiniteSets, Sequences, TLC

VARIABLES
    users,       \* the User collection of the credential store
    reqs,        \* the HTTP requests being served, by connection slot
    now,         \* the server clock, in days
    jwtSecret,   \* process.env.JWT_SECRET
    mongoUri,    \* process.env.MONGODB_URI
    server,      \* the server process: its phase, database connection, exit code
    localToken,  \* the browser's localStorage entry "token"
    discarded,   \* the token the last logout removed from localStorage
    page         \* the state of the page component mounted in the browser

vars == <<users, reqs, now, jwtSecret, mongoUri, server, localToken, discarded, page>>

\* Everything but the mounted page.
backend == <<users, reqs, now, jwtSecret, mongoUri, server, localToken, discarded>>

----------------------------------------------------------------------------
(* Bounds of the model *)

MaxInFlight == 2
MaxNow == 8

(* Program constants *)

\* expiresIn: '7d'
SevenDays == 7

(* Request inputs *)

Undefined == "<undefined>"
Emails == {"ada@example.com", "bob@example.com"}
Names == {"Ada"}
Passwords == {"secret123", "hunter2"}
Salts == {"salt1"}
NameInputs == Names \cup {""}
EmailInputs == Emails \cup {Undefined}
PasswordInputs == Passwords \cup {Undefined}
SessionName == "Ada"
SessionEmail == "ada@example.com"
SessionPassword == "secret123"
Messages == {"How should I budget?"}

Slots == 1..MaxInFlight

\* JavaScript truthiness of a request field: undefined and "" are falsy.
Truthy(x) == x # Undefined /\ x # ""

IsString(x) == x # Undefined

----------------------------------------------------------------------------
(* bcryptjs *)

Digest(password, salt) == <<"bcrypt", salt, password>>

BcryptHash(password, salt) == [salt |-> salt, digest |-> Digest(password, salt)]

\* bcrypt.compare rejects ("Illegal arguments") when the data is not a string.
BcryptCompare(password, hash) ==
    IF ~IsString(password)
    THEN [threw |-> TRUE, ok |-> FALSE]
    ELSE [threw |-> FALSE, ok |-> (hash.digest = Digest(password, hash.salt))]

----------------------------------------------------------------------------
(* jsonwebtoken *)

Hmac(payload, key) == <<"HS256", key, payload>>

\* Mutant: expiresIn without its unit, so that the token expires as it is issued.
JwtSignExpiresNow(claims, secret, clock) ==
    LET payload == [id |-> claims.id, name |-> claims.name, email |-> claims.email,
                    iat |-> clock, exp |-> clock]
    IN  IF secret = Undefined
        THEN [threw |-> TRUE]
        ELSE [threw |-> FALSE,
              token |-> [kind |-> "jwt", payload |-> payload,
                         sig |-> Hmac(payload, secret)]]

JwtSign(claims, secret, clock) ==
    LET payload == [id |-> claims.id, name |-> claims.name, email |-> claims.email,
                    iat |-> clock, exp |-> clock + SevenDays]
    IN  IF secret = Undefined
        THEN [threw |-> TRUE]
        ELSE [threw |-> FALSE,
              token |-> [kind |-> "jwt", payload |-> payload,
                         sig |-> Hmac(payload, secret)]]

\* Mutant: a token is still accepted at the instant it expires.
JwtVerifyLenientExpiry(cred, secret, clock) ==
    IF secret = Undefined THEN [threw |-> TRUE, error |-> "secret or public key must be provided"]
    ELSE IF cred.kind # "jwt" THEN [threw |-> TRUE, error |-> "jwt malformed"]
    ELSE IF cred.sig # Hmac(cred.payload, secret) THEN [threw |-> TRUE, error |-> "invalid signature"]
    ELSE IF clock > cred.payload.exp THEN [threw |-> TRUE, error |-> "jwt expired"]
    ELSE [threw |-> FALSE, decoded |-> cred.payload]

\* Mutant: the expiry is not checked (ignoreExpiration).
JwtVerifyNoExpiry(cred, secret, clock) ==
    IF secret = Undefined THEN [threw |-> TRUE, error |-> "secret or public key must be provided"]
    ELSE IF cred.kind # "jwt" THEN [threw |-> TRUE, error |-> "jwt malformed"]
    ELSE IF cred.sig # Hmac(cred.payload, secret) THEN [threw |-> TRUE, error |-> "invalid signature"]
    ELSE [threw |-> FALSE, decoded |-> cred.payload]

JwtVerify(cred, secret, clock) ==
    IF secret = Undefined THEN [threw |-> TRUE, error |-> "secret or public key must be provided"]
    ELSE IF cred.kind # "jwt" THEN [threw |-> TRUE, error |-> "jwt malformed"]
    ELSE IF cred.sig # Hmac(cred.payload, secret) THEN [threw |-> TRUE, error |-> "invalid signature"]
    ELSE IF clock >= cred.payload.exp THEN [threw |-> TRUE, error |-> "jwt expired"]
    ELSE [threw |-> FALSE, decoded |-> cred.payload]

----------------------------------------------------------------------------
(* The User model *)

Null == [null |-> TRUE]

UserFindOne(store, email) ==
    IF \E u \in store : u.email = email
    THEN CHOOSE u \in store : u.email = email
    ELSE Null

\* Mutant: the query loses its filter and returns whichever record comes first.
UserFindByIdUnfiltered(store, id) ==
    IF store # {}
    THEN LET u == CHOOSE v \in store : \A w \in store : v.id <= w.id
         IN  [id |-> u.id, name |-> u.name, email |-> u.email]
    ELSE Null

\* Mutant: the query without its .select('name email').
UserFindByIdNoSelect(store, id) ==
    IF \E u \in store : u.id = id
    THEN CHOOSE v \in store : v.id = id
    ELSE Null

UserFindById(store, id) ==
    IF \E u \in store : u.id = id
    THEN LET u == CHOOSE v \in store : v.id = id
         IN  [id |-> u.id, name |-> u.name, email |-> u.email]
    ELSE Null

NewId(store) == Cardinality(store) + 1

\* Mutant: a collection without the unique index on email.
UserCreateNoIndex(store, doc) ==
    LET user == [id |-> NewId(store), name |-> doc.name, email |-> doc.email,
                 passwordHash |-> doc.passwordHash]
    IN  [threw |-> FALSE, user |-> user, store |-> store \cup {user}]

UserCreate(store, doc) ==
    IF \E u \in store : u.email = doc.email
    THEN [threw |-> TRUE, error |-> "DuplicateEmail", store |-> store]
    ELSE LET user == [id |-> NewId(store), name |-> doc.name, email |-> doc.email,
                      passwordHash |-> doc.passwordHash]
         IN  [threw |-> FALSE, user |-> user, store |-> store \cup {user}]

----------------------------------------------------------------------------
(* Requests *)

NoBody == [none |-> TRUE]

NewRequest(route, body, ghost) ==
    [route |-> route, pc |-> "start", body |-> body, local |-> NoBody,
     status |-> 0, res |-> NoBody, sent |-> 0, g |-> ghost]

Idle == [NewRequest("none", NoBody, NoBody) EXCEPT !.pc = "idle"]

FreeSlot(s) ==
    /\ reqs[s].pc = "idle"
    /\ \A t \in Slots : t < s => reqs[t].pc # "idle"

\* res.status(code).json(body)
Respond(r, code, body) ==
    [r EXCEPT !.pc = "done", !.status = code, !.res = body, !.sent = r.sent + 1]

AuthPayload(token, user) ==
    [token |-> token, user |-> [id |-> user.id, name |-> user.name, email |-> user.email]]

\* Mutant: only the id is signed into the token.
IssueAndRespondIdOnly(r, user) ==
    LET signed == JwtSign([id |-> user.id, name |-> Undefined, email |-> Undefined],
                          jwtSecret, now)
    IN  IF signed.threw
        THEN Respond(r, 500, [message |-> "Server error"])
        ELSE Respond(r, 200, AuthPayload(signed.token, user))

IssueAndRespond(r, user) ==
    LET signed == JwtSign([id |-> user.id, name |-> user.name, email |-> user.email],
                          jwtSecret, now)
    IN  IF signed.threw
        THEN Respond(r, 500, [message |-> "Server error"])
        ELSE Respond(r, 200, AuthPayload(signed.token, user))

----------------------------------------------------------------------------
(* The server process: index.js *)

Secrets == {Undefined, "jwt-secret"}
MongoUris == {Undefined, "mongodb://db/finverse"}

\* No page component is looked at.
NoPage == [name |-> "none"]

\* The module body has run: mongoose.connect(MONGODB_URI) is pending.
Connecting == [phase |-> "connecting", db |-> "pending", code |-> 0]

Listening == server.phase = "listening"

\* Mutant: app.listen called beside the connection attempt, not in its .then.
AfterConnectListenAnyway(uri, resolved) ==
    IF uri # Undefined /\ resolved
    THEN [phase |-> "listening", db |-> "connected", code |-> 0]
    ELSE [phase |-> "listening", db |-> "failed", code |-> 0]

\* mongoose.connect(uri).then(() => app.listen(PORT)).catch(() => process.exit(1));
\* connect rejects when the uri is undefined.
AfterConnect(uri, resolved) ==
    IF uri # Undefined /\ resolved
    THEN [phase |-> "listening", db |-> "connected", code |-> 0]
    ELSE [phase |-> "exited", db |-> "failed", code |-> 1]

MongooseConnect(resolved) ==
    /\ server.phase = "connecting"
    /\ server' = AfterConnect(mongoUri, resolved)
    /\ UNCHANGED <<users, reqs, now, jwtSecret, mongoUri, localToken, discarded, page>>

\* The process starts with its environment configured.
Init ==
    /\ users = {}
    /\ reqs = [s \in Slots |-> Idle]
    /\ now = 0
    /\ jwtSecret = "jwt-secret"
    /\ mongoUri = "mongodb://db/finverse"
    /\ server = Connecting
    /\ localToken = Null
    /\ discarded = Null
    /\ page = NoPage

\* The process starts with any environment: dotenv.config() sets what .env holds.
InitStartup ==
    /\ users = {}
    /\ reqs = [s \in Slots |-> Idle]
    /\ now = 0
    /\ jwtSecret \in Secrets
    /\ mongoUri \in MongoUris
    /\ server = Connecting
    /\ localToken = Null
    /\ discarded = Null
    /\ page = NoPage

----------------------------------------------------------------------------
(* POST /api/auth/register *)

EmailKnown(email) == \E u \in users : u.email = email

\* Mutant: the password is left out of the validation.
RegisterValidateNoPassword(r) ==
    IF ~Truthy(r.body.name) \/ ~Truthy(r.body.email)
    THEN Respond(r, 400, [message |-> "All fields are required"])
    ELSE [r EXCEPT !.pc = "findOne"]

\* The synchronous head of the handler: the field validation.
RegisterValidate(r) ==
    IF ~Truthy(r.body.name) \/ ~Truthy(r.body.email) \/ ~Truthy(r.body.password)
    THEN Respond(r, 400, [message |-> "All fields are required"])
    ELSE [r EXCEPT !.pc = "findOne"]

RegisterReceive(s, name, email, password) ==
    /\ Listening
    /\ FreeSlot(s)
    /\ LET body == [name |-> name, email |-> email, password |-> password]
           ghost == [known |-> EmailKnown(email), fault |-> FALSE, created |-> FALSE]
       IN  reqs' = [reqs EXCEPT ![s] = RegisterValidate(NewRequest("register", body, ghost))]
    /\ UNCHANGED <<users, now, jwtSecret, mongoUri, server, localToken, discarded, page>>

ServerError(r) ==
    Respond([r EXCEPT !.g.fault = TRUE], 500, [message |-> "Server error"])

\* Mutant: the duplicate check left out.
RegisterAfterFindOneNoCheck(r, exists) == [r EXCEPT !.pc = "create"]

\* const exists = await User.findOne({ email }); the duplicate check.
RegisterAfterFindOne(r, exists) ==
    IF exists # Null
    THEN Respond(r, 400, [message |-> "Email already in use"])
    ELSE [r EXCEPT !.pc = "create"]

RegisterFindOne(s) ==
    /\ Listening
    /\ reqs[s].route = "register" /\ reqs[s].pc = "findOne"
    /\ \/ reqs' = [reqs EXCEPT ![s] =
                      RegisterAfterFindOne(reqs[s], UserFindOne(users, reqs[s].body.email))]
       \/ reqs' = [reqs EXCEPT ![s] = ServerError(reqs[s])]
    /\ UNCHANGED <<users, now, jwtSecret, mongoUri, server, localToken, discarded, page>>

\* bcrypt.hash, User.create, jwt.sign and the response.
RegisterCreate(s, salt) ==
    /\ Listening
    /\ reqs[s].route = "register" /\ reqs[s].pc = "create"
    /\ LET r == reqs[s]
           doc == [name |-> r.body.name, email |-> r.body.email,
                   passwordHash |-> BcryptHash(r.body.password, salt)]
           made == UserCreate(users, doc)
       IN  \/ /\ ~made.threw
              /\ users' = made.store
              /\ reqs' = [reqs EXCEPT ![s] =
                             IssueAndRespond([r EXCEPT !.g.created = TRUE], made.user)]
           \/ /\ made.threw
              /\ users' = made.store
              /\ reqs' = [reqs EXCEPT ![s] =
                             Respond(r, 500, [message |-> "Server error"])]
           \/ /\ users' = users
              /\ reqs' = [reqs EXCEPT ![s] = ServerError(r)]
    /\ UNCHANGED <<now, jwtSecret, mongoUri, server, localToken, discarded, page>>

----------------------------------------------------------------------------
(* POST /api/auth/login *)

PasswordMatches(email, password) ==
    \E u \in users : /\ u.email = email
                     /\ IsString(password)
                     /\ u.passwordHash.digest = Digest(password, u.passwordHash.salt)

LoginReceive(s, email, password) ==
    /\ Listening
    /\ FreeSlot(s)
    /\ LET body == [email |-> email, password |-> password]
           ghost == [known |-> EmailKnown(email),
                     match |-> PasswordMatches(email, password),
                     fault |-> FALSE]
       IN  reqs' = [reqs EXCEPT ![s] =
                       [NewRequest("login", body, ghost) EXCEPT !.pc = "findOne"]]
    /\ UNCHANGED <<users, now, jwtSecret, mongoUri, server, localToken, discarded, page>>

LoginAfterFindOne(r, user) ==
    IF user = Null
    THEN Respond(r, 400, [message |-> "Invalid credentials"])
    ELSE [r EXCEPT !.pc = "compare", !.local = user]

LoginFindOne(s) ==
    /\ Listening
    /\ reqs[s].route = "login" /\ reqs[s].pc = "findOne"
    /\ \/ reqs' = [reqs EXCEPT ![s] =
                      LoginAfterFindOne(reqs[s], UserFindOne(users, reqs[s].body.email))]
       \/ reqs' = [reqs EXCEPT ![s] = ServerError(reqs[s])]
    /\ UNCHANGED <<users, now, jwtSecret, mongoUri, server, localToken, discarded, page>>

LoginAfterCompare(r, cmp) ==
    IF cmp.threw THEN Respond(r, 500, [message |-> "Server error"])
    ELSE IF ~cmp.ok THEN Respond(r, 400, [message |-> "Invalid credentials"])
    ELSE IssueAndRespond(r, r.local)

LoginCompare(s) ==
    /\ Listening
    /\ reqs[s].route = "login" /\ reqs[s].pc = "compare"
    /\ reqs' = [reqs EXCEPT ![s] =
                   LoginAfterCompare(reqs[s],
                       BcryptCompare(reqs[s].body.password, reqs[s].local.passwordHash))]
    /\ UNCHANGED <<users, now, jwtSecret, mongoUri, server, localToken, discarded, page>>

----------------------------------------------------------------------------
(* The Authorization header and authMiddleware *)

NoCred == [kind |-> "empty"]
Garbage == [kind |-> "garbage"]

AbsentHeader == [defined |-> FALSE, scheme |-> "", rest |-> NoCred]
EmptyHeader == [defined |-> TRUE, scheme |-> "", rest |-> NoCred]
BasicHeader == [defined |-> TRUE, scheme |-> "Basic ", rest |-> Garbage]
Bearer(cred) == [defined |-> TRUE, scheme |-> "Bearer ", rest |-> cred]

\* Mutant: the scheme is not looked at, whatever follows it is taken as the token.
BearerTokenAnyScheme(header) ==
    LET h == IF header.defined THEN header ELSE EmptyHeader
    IN  h.rest

\* const header = req.headers.authorization || ''
\* const token = header.startsWith('Bearer ') ? header.slice(7) : null
BearerToken(header) ==
    LET h == IF header.defined THEN header ELSE EmptyHeader
    IN  IF h.scheme = "Bearer " THEN h.rest ELSE NoCred

\* Mutant: jwt.decode in place of jwt.verify, the signature is not checked.
AuthMiddlewareDecodeOnly(header, secret, clock) ==
    LET token == BearerToken(header)
    IN  IF token.kind = "empty"
        THEN [next |-> FALSE, status |-> 401, body |-> [message |-> "Missing token"],
              userId |-> 0, verified |-> FALSE]
        ELSE IF token.kind # "jwt" \/ clock >= token.payload.exp
             THEN [next |-> FALSE, status |-> 401,
                   body |-> [message |-> "Invalid token"], userId |-> 0,
                   verified |-> FALSE]
             ELSE [next |-> TRUE, status |-> 0, body |-> NoBody,
                   userId |-> token.payload.id, verified |-> FALSE]

\* Mutant: the catch sends the verifier's own message.
AuthMiddlewareEchoError(header, secret, clock) ==
    LET token == BearerToken(header)
    IN  IF token.kind = "empty"
        THEN [next |-> FALSE, status |-> 401, body |-> [message |-> "Missing token"],
              userId |-> 0, verified |-> FALSE]
        ELSE LET v == JwtVerify(token, secret, clock)
             IN  IF v.threw
                 THEN [next |-> FALSE, status |-> 401,
                       body |-> [message |-> v.error], userId |-> 0,
                       verified |-> TRUE]
                 ELSE [next |-> TRUE, status |-> 0, body |-> NoBody,
                       userId |-> v.decoded.id, verified |-> TRUE]

\* The outcome of the middleware: the response it sent (status 0: none), whether
\* it called next(), the req.userId it set, and whether it called jwt.verify.
AuthMiddleware(header, secret, clock) ==
    LET token == BearerToken(header)
    IN  IF token.kind = "empty"
        THEN [next |-> FALSE, status |-> 401, body |-> [message |-> "Missing token"],
              userId |-> 0, verified |-> FALSE]
        ELSE LET v == JwtVerify(token, secret, clock)
             IN  IF v.threw
                 THEN [next |-> FALSE, status |-> 401,
                       body |-> [message |-> "Invalid token"], userId |-> 0,
                       verified |-> TRUE]
                 ELSE [next |-> TRUE, status |-> 0, body |-> NoBody,
                       userId |-> v.decoded.id, verified |-> TRUE]

----------------------------------------------------------------------------
(* What a caller can put in the Authorization header *)

\* A token whose payload was edited while the signature was kept, or that was
\* signed again with a key that is not the server's.
Tampered(t) ==
    { [t EXCEPT !.payload.exp = t.payload.exp + SevenDays],
      [t EXCEPT !.payload.id = t.payload.id + 1],
      [t EXCEPT !.sig = Hmac(t.payload, "attacker-key")],
      [t EXCEPT !.payload.exp = t.payload.exp + SevenDays,
                !.sig = Hmac([t.payload EXCEPT !.exp = t.payload.exp + SevenDays],
                             "attacker-key")] }

Age(t) == IF now < t.payload.exp THEN "before"
          ELSE IF now = t.payload.exp THEN "at" ELSE "after"

HeldTokens ==
    {<<localToken, "local">> : x \in {y \in {1} : localToken # Null}}
    \cup {<<discarded, "discarded">> : x \in {y \in {1} : discarded # Null}}

TokenInfo(cls, age, src, claimId) ==
    [cls |-> cls, age |-> age, src |-> src, claimId |-> claimId, ran |-> FALSE,
     verified |-> FALSE, fault |-> FALSE]

NoTokenInfo(cls) == TokenInfo(cls, "n/a", "n/a", 0)

\* A caller with no token, or the browser sending the token it holds.
PlainHeaders ==
    {<<AbsentHeader, NoTokenInfo("none")>>}
    \cup {<<Bearer(localToken),
             TokenInfo("genuine", Age(localToken), "local", localToken.payload.id)>>
            : x \in {y \in {1} : localToken # Null}}

\* Each choice is the header and what the caller knows about how it was made.
HeaderChoices ==
    {<<h, NoTokenInfo("none")>> : h \in {AbsentHeader, EmptyHeader, BasicHeader, Bearer(NoCred)}}
    \cup {<<Bearer(Garbage), NoTokenInfo("malformed")>>}
    \cup {<<Bearer(ht[1]), TokenInfo("genuine", Age(ht[1]), ht[2], ht[1].payload.id)>>
            : ht \in HeldTokens}
    \cup UNION {{<<Bearer(t), TokenInfo("tampered", Age(ht[1]), ht[2], t.payload.id)>>
                    : t \in Tampered(ht[1])} : ht \in HeldTokens}

----------------------------------------------------------------------------
(* GET /api/auth/me *)

\* router.get('/me', authMiddleware, handler): the handler starts when the
\* middleware calls next().
MeReceive(s, hc) ==
    /\ Listening
    /\ FreeSlot(s)
    /\ LET r == NewRequest("me", NoBody, hc[2])
           guard == AuthMiddleware(hc[1], jwtSecret, now)
           seen == [r EXCEPT !.g.verified = guard.verified]
           sent == IF guard.status # 0 THEN Respond(seen, guard.status, guard.body)
                   ELSE seen
       IN  reqs' = [reqs EXCEPT ![s] =
                       IF guard.next
                       THEN [sent EXCEPT !.pc = "findById", !.g.ran = TRUE,
                                         !.local = [userId |-> guard.userId]]
                       ELSE sent]
    /\ UNCHANGED <<users, now, jwtSecret, mongoUri, server, localToken, discarded, page>>

\* The handler has no try/catch: when User.findById rejects, so does the
\* handler's promise.  What follows depends on the build: Express 4 drops the
\* rejection and no response is ever sent, and Node then either goes on or ends
\* the process on the unhandled rejection; Express 5 passes the rejection to its
\* default error handler.
DefaultErrorBody == [html |-> "Internal Server Error"]

MeFindById(s) ==
    /\ Listening
    /\ reqs[s].route = "me" /\ reqs[s].pc = "findById"
    /\ LET r == reqs[s]
           failed == [r EXCEPT !.g.fault = TRUE]
       IN  \/ /\ reqs' = [reqs EXCEPT ![s] =
                             Respond(r, 200,
                                     [user |-> UserFindById(users, r.local.userId)])]
              /\ server' = server
           \/ /\ reqs' = [reqs EXCEPT ![s] = [failed EXCEPT !.pc = "hung"]]
              /\ server' = server
           \/ /\ reqs' = [reqs EXCEPT ![s] = [failed EXCEPT !.pc = "hung"]]
              /\ server' = [server EXCEPT !.phase = "exited", !.code = 1]
           \/ /\ reqs' = [reqs EXCEPT ![s] = Respond(failed, 500, DefaultErrorBody)]
              /\ server' = server
    /\ UNCHANGED <<users, now, jwtSecret, mongoUri, localToken, discarded, page>>

----------------------------------------------------------------------------
(* POST /api/chat *)

\* The source writes the apostrophe as U+2019; strings here are ASCII.
Fallback == "Sorry, I couldn't generate a response."

ChatReceive(s, hc, message) ==
    /\ Listening
    /\ FreeSlot(s)
    /\ reqs' = [reqs EXCEPT ![s] =
                   [NewRequest("chat", [message |-> message], hc[2])
                       EXCEPT !.pc = "upstream"]]
    /\ UNCHANGED <<users, now, jwtSecret, mongoUri, server, localToken, discarded, page>>

\* A provider response body: candidates, each with the texts of its content's
\* parts; or a body without candidates.
Candidates(cs) == [candidates |-> cs]
Candidate(texts) == [parts |-> texts]

\* Mutant: the last part of the first candidate is taken.
FirstTextLastPart(data) ==
    IF "candidates" \notin DOMAIN data THEN Undefined
    ELSE IF Len(data.candidates) = 0 THEN Undefined
    ELSE LET parts == data.candidates[1].parts
         IN  IF Len(parts) = 0 THEN Undefined ELSE parts[Len(parts)]

\* data?.candidates?.[0]?.content?.parts?.[0]?.text
FirstText(data) ==
    IF "candidates" \notin DOMAIN data THEN Undefined
    ELSE IF Len(data.candidates) = 0 THEN Undefined
    ELSE LET parts == data.candidates[1].parts
         IN  IF Len(parts) = 0 THEN Undefined ELSE parts[1]

\* What axios.post did: it rejected with an error, or resolved with a body.
Rejected(error) == [failed |-> TRUE, error |-> error, data |-> NoBody]
Resolved(data) == [failed |-> FALSE, error |-> "", data |-> data]

\* Mutant: the catch sends the error it caught.
ChatAfterUpstreamEchoError(r, outcome) ==
    IF outcome.failed
    THEN Respond(r, 500, [error |-> outcome.error])
    ELSE Respond(r, 200, [reply |-> IF Truthy(FirstText(outcome.data))
                                    THEN FirstText(outcome.data) ELSE Fallback])

ChatAfterUpstream(r, outcome) ==
    IF outcome.failed
    THEN Respond(r, 500,
             [error |-> "Chatbot failed to respond. Check API key or model endpoint."])
    ELSE Respond(r, 200, [reply |-> IF Truthy(FirstText(outcome.data))
                                    THEN FirstText(outcome.data) ELSE Fallback])

\* What the provider did is kept with the request.
ChatSettle(r, outcome) == ChatAfterUpstream([r EXCEPT !.local = outcome], outcome)

ProviderOutcomes ==
    { Resolved(Candidates(<<Candidate(<<"Save 20% of income.">>)>>)),
      Resolved(Candidates(<<>>)),
      Rejected("connect ECONNREFUSED") }

\* Every shape of answer: several candidates and parts, a missing or empty
\* text, a body without candidates, and failures of different kinds.
ProviderResponses ==
    ProviderOutcomes
    \cup { Resolved(Candidates(<<Candidate(<<"Save 20% of income.", "Then invest.">>),
                                 Candidate(<<"Spend less.">>)>>)),
           Resolved(Candidates(<<Candidate(<<"Spend less.">>),
                                 Candidate(<<"Save 20% of income.">>)>>)),
           Resolved(Candidates(<<Candidate(<<>>), Candidate(<<"Spend less.">>)>>)),
           Resolved(Candidates(<<Candidate(<<"", "Then invest.">>)>>)),
           Resolved(Candidates(<<Candidate(<<Undefined>>)>>)),
           Resolved(NoBody),
           Rejected("400 API key not valid"),
           Rejected("429 quota exceeded for project finverse") }

ChatUpstream(s, outcome) ==
    /\ Listening
    /\ reqs[s].route = "chat" /\ reqs[s].pc = "upstream"
    /\ reqs' = [reqs EXCEPT ![s] = ChatSettle(reqs[s], outcome)]
    /\ UNCHANGED <<users, now, jwtSecret, mongoUri, server, localToken, discarded, page>>

----------------------------------------------------------------------------
(* The browser *)

\* Login.jsx, Register.jsx: if (res.ok) localStorage.setItem("token", data.token)
StoreToken(r) == r.route \in {"register", "login"} /\ r.status = 200

Deliver(s) ==
    /\ reqs[s].pc = "done"
    /\ reqs' = [reqs EXCEPT ![s] = Idle]
    /\ IF StoreToken(reqs[s])
       THEN localToken' = reqs[s].res.token /\ discarded' = Null
       ELSE UNCHANGED <<localToken, discarded>>
    /\ UNCHANGED <<users, now, jwtSecret, mongoUri, server, page>>

\* Sidebar handleLogout: localStorage.removeItem("token")
Logout ==
    /\ localToken # Null
    /\ localToken' = Null
    /\ discarded' = localToken
    /\ UNCHANGED <<users, reqs, now, jwtSecret, mongoUri, server, page>>

Tick ==
    /\ now < MaxNow
    /\ now' = now + 1
    /\ UNCHANGED <<users, reqs, jwtSecret, mongoUri, server, localToken, discarded, page>>

(* Next-state relations.  The request handlers are the same in each; what *)
(* differs is the traffic the environment sends.                          *)

\* Credential traffic: every shape of register and login body, two accounts,
\* concurrent requests, callers without a token or with the browser's one; the
\* clock does not move.
Next ==
    \/ \E resolved \in BOOLEAN : MongooseConnect(resolved)
    \/ \E s \in Slots, name \in NameInputs, email \in EmailInputs,
          password \in PasswordInputs : RegisterReceive(s, name, email, password)
    \/ \E s \in Slots : RegisterFindOne(s)
    \/ \E s \in Slots, salt \in Salts : RegisterCreate(s, salt)
    \/ \E s \in Slots, email \in EmailInputs, password \in PasswordInputs :
          LoginReceive(s, email, password)
    \/ \E s \in Slots : LoginFindOne(s)
    \/ \E s \in Slots : LoginCompare(s)
    \/ \E s \in Slots, hc \in PlainHeaders : MeReceive(s, hc)
    \/ \E s \in Slots : MeFindById(s)
    \/ \E s \in Slots, hc \in PlainHeaders, message \in Messages :
          ChatReceive(s, hc, message)
    \/ \E s \in Slots, outcome \in ProviderOutcomes : ChatUpstream(s, outcome)
    \/ \E s \in Slots : Deliver(s)

Spec == Init /\ [][Next]_vars

\* Session traffic: one account, every kind of Authorization header, logout,
\* and the clock running past the tokens' expiry.
NextSession ==
    \/ \E resolved \in BOOLEAN : MongooseConnect(resolved)
    \/ \E s \in Slots : RegisterReceive(s, SessionName, SessionEmail, SessionPassword)
    \/ \E s \in Slots : RegisterFindOne(s)
    \/ \E s \in Slots, salt \in Salts : RegisterCreate(s, salt)
    \/ \E s \in Slots : LoginReceive(s, SessionEmail, SessionPassword)
    \/ \E s \in Slots : LoginFindOne(s)
    \/ \E s \in Slots : LoginCompare(s)
    \/ \E s \in Slots, hc \in HeaderChoices : MeReceive(s, hc)
    \/ \E s \in Slots : MeFindById(s)
    \/ \E s \in Slots, hc \in HeaderChoices, message \in Messages :
          ChatReceive(s, hc, message)
    \/ \E s \in Slots, outcome \in ProviderOutcomes : ChatUpstream(s, outcome)
    \/ \E s \in Slots : Deliver(s)
    \/ Logout
    \/ Tick

SpecSession == Init /\ [][NextSession]_vars

\* Relay traffic with the progress the runtime gives.  A handler whose awaited
\* store call has settled is resumed by the event loop, the MongoDB driver
\* settles every call (it answers or times out), and a response that was sent is
\* delivered.  Nothing makes the provider answer: axios.post is called without a
\* timeout, so ChatUpstream, the handler's resumption once the provider has
\* answered or refused, carries no fairness.
NextLive ==
    \/ \E resolved \in BOOLEAN : MongooseConnect(resolved)
    \/ \E s \in Slots : RegisterReceive(s, SessionName, SessionEmail, SessionPassword)
    \/ \E s \in Slots : RegisterFindOne(s)
    \/ \E s \in Slots, salt \in Salts : RegisterCreate(s, salt)
    \/ \E s \in Slots : LoginReceive(s, SessionEmail, SessionPassword)
    \/ \E s \in Slots : LoginFindOne(s)
    \/ \E s \in Slots : LoginCompare(s)
    \/ \E s \in Slots, hc \in PlainHeaders, message \in Messages :
          ChatReceive(s, hc, message)
    \/ \E s \in Slots, outcome \in ProviderOutcomes : ChatUpstream(s, outcome)
    \/ \E s \in Slots : Deliver(s)

SpecLive ==
    /\ Init
    /\ [][NextLive]_vars
    /\ WF_vars(\E resolved \in BOOLEAN : MongooseConnect(resolved))
    /\ \A s \in Slots :
          /\ WF_vars(RegisterFindOne(s))
          /\ WF_vars(\E salt \in Salts : RegisterCreate(s, salt))
          /\ WF_vars(LoginFindOne(s))
          /\ WF_vars(LoginCompare(s))
          /\ WF_vars(Deliver(s))

\* The chat relay alone, against every shape of provider answer.
NextRelay ==
    \/ \E resolved \in BOOLEAN : MongooseConnect(resolved)
    \/ \E s \in Slots, hc \in PlainHeaders, message \in Messages :
          ChatReceive(s, hc, message)
    \/ \E s \in Slots, outcome \in ProviderResponses : ChatUpstream(s, outcome)
    \/ \E s \in Slots : Deliver(s)

SpecRelay == Init /\ [][NextRelay]_vars

\* The same traffic against a process started with any environment: with or
\* without JWT_SECRET, with or without MONGODB_URI.
SpecStartup == InitStartup /\ [][NextLive]_vars

----------------------------------------------------------------------------
(* Properties of registration and login *)

Done(s, route) == reqs[s].route = route /\ reqs[s].pc = "done"

ValidRegisterBody(b) == Truthy(b.name) /\ Truthy(b.email) /\ Truthy(b.password)

EmailInUse(r) == r.status = 400 /\ r.res = [message |-> "Email already in use"]

InvalidCredentials(r) == r.status = 400 /\ r.res = [message |-> "Invalid credentials"]

\* C1: two register requests for the same email, both received while the email
\* was not yet in the store and neither hit by a store failure, end with one
\* success and one 400 'Email already in use'.
C1_RaceOneSuccessOneEmailInUse ==
    \A s, t \in Slots :
        ( /\ s # t
          /\ Done(s, "register") /\ Done(t, "register")
          /\ reqs[s].body.email = reqs[t].body.email
          /\ ValidRegisterBody(reqs[s].body) /\ ValidRegisterBody(reqs[t].body)
          /\ ~reqs[s].g.known /\ ~reqs[t].g.known
          /\ ~reqs[s].g.fault /\ ~reqs[t].g.fault )
        => \/ reqs[s].status = 200 /\ EmailInUse(reqs[t])
           \/ reqs[t].status = 200 /\ EmailInUse(reqs[s])

\* C2: the store never holds two User records with the same email.
C2_OneRecordPerEmail ==
    \A u, v \in users : u.email = v.email => u = v

\* Two registrations raced for one email and only one record was stored.
C2_Witness ==
    \E s, t \in Slots :
        /\ s # t
        /\ Done(s, "register") /\ Done(t, "register")
        /\ reqs[s].body.email = reqs[t].body.email
        /\ reqs[s].g.created /\ ~reqs[t].g.known /\ ~reqs[t].g.fault
        /\ reqs[t].status = 500
        /\ Cardinality({u \in users : u.email = reqs[s].body.email}) = 1

\* The request in slot s gets its response in this step.
Responds(s, route) ==
    /\ reqs[s].pc # "done"
    /\ reqs'[s].pc = "done"
    /\ reqs'[s].route = route

\* C3: a register with three non-empty fields whose email is not in the store
\* succeeds and adds the record; a register received when its email is already
\* in the store gets 400 'Email already in use' and adds nothing; a success only
\* ever happens for an email that was not stored, and a stored email stays
\* stored, so that no email sees a second success.
C3_RegisterOncePerEmail ==
    [][ /\ \A e \in Emails : EmailKnown(e) => (\E u \in users' : u.email = e)
        /\ \A s \in Slots :
              (Responds(s, "register") /\ ValidRegisterBody(reqs'[s].body)
                  /\ ~reqs'[s].g.fault)
              => LET r == reqs'[s]
                     e == r.body.email
                 IN  /\ r.g.known => (EmailInUse(r) /\ users' = users /\ ~r.g.created)
                     /\ ~EmailKnown(e) => r.status = 200
                     /\ r.status = 200 =>
                           /\ ~EmailKnown(e)
                           /\ r.g.created
                           /\ \E u \in users' :
                                 /\ users' = users \cup {u}
                                 /\ u.email = e /\ u.name = r.body.name
                                 /\ r.res.user = [id |-> u.id, name |-> u.name,
                                                  email |-> u.email]
      ]_vars

\* A later register with another password was turned away with EmailInUse.
C3_Witness ==
    \E s \in Slots :
        /\ Done(s, "register")
        /\ reqs[s].g.known
        /\ EmailInUse(reqs[s])
        /\ ~PasswordMatches(reqs[s].body.email, reqs[s].body.password)
        /\ Cardinality({u \in users : u.email = reqs[s].body.email}) = 1

\* C4: a failed login for a registered email with a password that is not the
\* registered one gets the same response (status and body) as a failed login for
\* an email that is not registered.
C4_FailedLoginsIndistinguishable ==
    \A s, t \in Slots :
        ( /\ Done(s, "login") /\ Done(t, "login")
          /\ ~reqs[s].g.fault /\ ~reqs[t].g.fault
          /\ reqs[s].g.known /\ ~reqs[s].g.match
          /\ ~EmailKnown(reqs[t].body.email) )
        => /\ reqs[s].status = reqs[t].status
           /\ reqs[s].res = reqs[t].res

\* C5: a login with a registered email and its password gets 200, a token
\* signed by the server whose id, name and email are those of the stored record,
\* and a user object with the same three values.
C5_LoginReturnsIdentity ==
    \A s \in Slots :
        (Done(s, "login") /\ reqs[s].g.known /\ reqs[s].g.match /\ ~reqs[s].g.fault)
        => LET r == reqs[s]
               u == UserFindOne(users, r.body.email)
           IN  /\ r.status = 200
               /\ r.res.token.sig = Hmac(r.res.token.payload, jwtSecret)
               /\ r.res.token.payload.id = u.id
               /\ r.res.token.payload.name = u.name
               /\ r.res.token.payload.email = u.email
               /\ r.res.user = [id |-> u.id, name |-> u.name, email |-> u.email]

\* A login succeeded for the second account of the store.
C5_Witness ==
    \E s \in Slots :
        /\ Done(s, "login")
        /\ reqs[s].g.known /\ reqs[s].g.match
        /\ reqs[s].status = 200
        /\ reqs[s].res.user.id = 2

----------------------------------------------------------------------------
(* Properties of the session guard and of the tokens *)

\* The caller presented a token the server issued, unmodified and not expired.
PresentedValidToken(r) == r.g.cls = "genuine" /\ r.g.age = "before"

\* C6: the handler behind authMiddleware runs only for a request that presented
\* a token the server signed and that had not expired, with req.userId equal to
\* the token's id claim; a request answered 401 gets that one response and its
\* handler never runs.
C6_GuardedOperation ==
    \A s \in Slots :
        reqs[s].route = "me" =>
            /\ reqs[s].g.ran =>
                  /\ PresentedValidToken(reqs[s])
                  /\ reqs[s].local.userId = reqs[s].g.claimId
                  /\ reqs[s].status # 401
            /\ reqs[s].status = 401 =>
                  /\ reqs[s].pc = "done"
                  /\ reqs[s].sent = 1
                  /\ ~reqs[s].g.ran
            /\ reqs[s].sent <= 1

\* One request is inside the protected handler while another one, which
\* presented a tampered token, has its 401.
C6_Witness ==
    \E s, t \in Slots :
        /\ reqs[s].route = "me" /\ reqs[s].pc = "findById"
        /\ reqs[s].local.userId = 1
        /\ reqs[t].route = "me" /\ reqs[t].g.cls = "tampered"
        /\ reqs[t].status = 401 /\ reqs[t].sent = 1

\* C7: a chat request has its outbound call to the provider made (or already
\* answered) only if it presented a valid token.
C7_ChatBehindGuard ==
    \A s \in Slots :
        (reqs[s].route = "chat" /\ reqs[s].pc \in {"upstream", "done"})
        => PresentedValidToken(reqs[s])

\* C8: at the step that issues a token (a 200 response of register or login),
\* verifying that token at that same instant succeeds and decodes to the id,
\* name and email of the user record it was issued for.
C8_TokenRoundTrip ==
    [][ \A s \in Slots :
          ((Responds(s, "register") \/ Responds(s, "login")) /\ reqs'[s].status = 200)
          => LET v == JwtVerify(reqs'[s].res.token, jwtSecret, now)
                 u == UserFindOne(users', reqs'[s].body.email)
             IN  /\ ~v.threw
                 /\ v.decoded.id = u.id
                 /\ v.decoded.name = u.name
                 /\ v.decoded.email = u.email
      ]_vars

\* A login issued a token later than the server's start, and it verifies now.
C8_Witness ==
    \E s \in Slots :
        /\ Done(s, "login") /\ reqs[s].status = 200
        /\ reqs[s].res.token.payload.iat = now /\ now > 0
        /\ ~JwtVerify(reqs[s].res.token, jwtSecret, now).threw

\* The caller presented an issued token at or after its expiry, or a token that
\* was modified or signed with another key.
PresentedBadToken(r) ==
    \/ r.g.cls = "tampered"
    \/ r.g.cls = "genuine" /\ r.g.age \in {"at", "after"}

\* C9: every request to the guarded route with an expired or tampered token is
\* answered 401 and its handler does not run, in every reachable state, that is
\* on every retry and whatever requests came before.
C9_BadTokenAlwaysRejected ==
    \A s \in Slots :
        (reqs[s].route = "me" /\ PresentedBadToken(reqs[s]))
        => /\ reqs[s].pc = "done"
           /\ reqs[s].status = 401
           /\ ~reqs[s].g.ran

\* The same expired token was presented twice and was turned away both times.
C9_Witness ==
    \E s, t \in Slots :
        /\ s # t
        /\ reqs[s].route = "me" /\ reqs[t].route = "me"
        /\ reqs[s].g = reqs[t].g
        /\ reqs[s].g.cls = "genuine" /\ reqs[s].g.age = "after"
        /\ reqs[s].status = 401 /\ reqs[t].status = 401

\* C10: a token issued by login or register is accepted by the guard whenever it
\* is presented before its expiry, also when the browser has logged out and
\* dropped it, and is rejected whenever it is presented after its expiry.
C10_ValidUntilExpiry ==
    \A s \in Slots :
        (reqs[s].route = "me" /\ reqs[s].g.cls = "genuine") =>
            /\ reqs[s].g.age = "before" => (reqs[s].g.ran /\ reqs[s].status # 401)
            /\ reqs[s].g.age = "after" => (reqs[s].status = 401 /\ ~reqs[s].g.ran)

\* After a logout the dropped token was accepted, and later, past its expiry,
\* the same token was rejected.
C10_Witness ==
    \E s, t \in Slots :
        /\ localToken = Null
        /\ reqs[s].route = "me" /\ reqs[s].g.src = "discarded"
        /\ reqs[s].g.age = "before" /\ reqs[s].status = 200
        /\ reqs[t].route = "me" /\ reqs[t].g.src = "discarded"
        /\ reqs[t].g.cls = "genuine" /\ reqs[t].g.age = "after"
        /\ reqs[t].status = 401

----------------------------------------------------------------------------
(* Properties of the responses *)

\* C11: a successful register stores the name and email of its body under the
\* id its token carries, records are never changed afterwards, and a me request
\* that presents such a token (unexpired, no store failure) is answered 200 with
\* the name and email of that record; a me request without a token is answered
\* 401.
C11_MeAfterRegister ==
    [][ /\ \A u \in users : u \in users'
        /\ \A s \in Slots :
              (Responds(s, "register") /\ reqs'[s].status = 200) =>
                  \E u \in users' \ users :
                      /\ u.id = reqs'[s].res.token.payload.id
                      /\ u.name = reqs'[s].body.name
                      /\ u.email = reqs'[s].body.email
        /\ \A s \in Slots :
              reqs'[s].route = "me" =>
                  /\ reqs'[s].g.cls = "none" =>
                         reqs'[s].pc = "done" /\ reqs'[s].status = 401
                  /\ ( /\ reqs'[s].g.cls = "genuine" /\ reqs'[s].g.age = "before"
                        /\ reqs'[s].pc = "done" /\ ~reqs'[s].g.fault ) =>
                         /\ reqs'[s].status = 200
                         /\ \E u \in users' :
                                /\ u.id = reqs'[s].g.claimId
                                /\ reqs'[s].res.user.name = u.name
                                /\ reqs'[s].res.user.email = u.email ]_vars

\* With two accounts registered, the holder of the second account's token got
\* that account's name and email while a caller without a token got 401.
C11_Witness ==
    \E s, t \in Slots :
        /\ Cardinality(users) = 2
        /\ Done(s, "me") /\ reqs[s].g.cls = "genuine" /\ reqs[s].g.claimId = 2
        /\ reqs[s].status = 200
        /\ reqs[s].res.user.name \in Names /\ reqs[s].res.user.email \in Emails
        /\ Done(t, "me") /\ reqs[t].g.cls = "none" /\ reqs[t].status = 401

ProviderFailed(r) == r.local.failed

ProviderBodyMalformed(r) == ~r.local.failed /\ ~Truthy(FirstText(r.local.data))

\* C12: when the provider was unreachable or its body held no reply text, the
\* chat relay answers with the fixed fallback reply.
C12_ChatFallbackOnFailure ==
    \A s \in Slots :
        (Done(s, "chat") /\ (ProviderFailed(reqs[s]) \/ ProviderBodyMalformed(reqs[s])))
        => reqs[s].res = [reply |-> Fallback]

\* C13: a chat request that waits for the provider is eventually answered.
C13_ChatEventuallyAnswered ==
    \A s \in Slots :
        (reqs[s].route = "chat" /\ reqs[s].pc = "upstream") ~> (reqs[s].pc = "done")

\* C14: no register, login or me request is answered twice, and one whose store
\* call threw has been answered with 500 'Server error'.
C14_StoreFailureIsServerError ==
    \A s \in Slots :
        reqs[s].route \in {"register", "login", "me"} =>
            /\ reqs[s].sent <= 1
            /\ reqs[s].g.fault =>
                   /\ reqs[s].pc = "done" /\ reqs[s].sent = 1
                   /\ reqs[s].status = 500
                   /\ reqs[s].res = [message |-> "Server error"]

MissingToken(r) == r.status = 401 /\ r.res = [message |-> "Missing token"]

\* C15: a me request whose Authorization header is absent, empty, or does not
\* hold a token after 'Bearer ' is answered 401 'Missing token' in the step that
\* receives it: jwt.verify is not called and the handler does not run.
C15_NoTokenRejectedAtOnce ==
    \A s \in Slots :
        (reqs[s].route = "me" /\ reqs[s].g.cls = "none") =>
            /\ reqs[s].pc = "done" /\ reqs[s].sent = 1
            /\ MissingToken(reqs[s])
            /\ ~reqs[s].g.verified
            /\ ~reqs[s].g.ran

\* A caller without a token was turned away while the account existed and its
\* owner was being served.
C15_Witness ==
    \E s, t \in Slots :
        /\ Done(s, "me") /\ reqs[s].g.cls = "none" /\ MissingToken(reqs[s])
        /\ Done(t, "me") /\ reqs[t].g.cls = "genuine" /\ reqs[t].status = 200

PresentedExpiredToken(r) ==
    r.route = "me" /\ r.g.cls = "genuine" /\ r.g.age \in {"at", "after"}

PresentedForgedToken(r) == r.route = "me" /\ r.g.cls = "tampered"

\* C16: the response to a me request with an expired token and the response to
\* one with a token whose signature does not verify are the same in status and
\* body.
C16_ExpiredAndForgedAlike ==
    \A s, t \in Slots :
        ( /\ PresentedExpiredToken(reqs[s]) /\ reqs[s].pc = "done"
          /\ PresentedForgedToken(reqs[t]) /\ reqs[t].pc = "done" )
        => /\ reqs[s].status = reqs[t].status
           /\ reqs[s].res = reqs[t].res

\* Both rejections are on the wire at once.
C16_Witness ==
    \E s, t \in Slots :
        /\ PresentedExpiredToken(reqs[s]) /\ reqs[s].pc = "done"
        /\ PresentedForgedToken(reqs[t]) /\ reqs[t].pc = "done"
        /\ reqs[s].status = 401 /\ reqs[t].status = 401
        /\ reqs[s].g.verified /\ reqs[t].g.verified

AllFieldsRequired(r) == r.status = 400 /\ r.res = [message |-> "All fields are required"]

\* C17: a register request with a missing or empty name, email or password is
\* answered 400 'All fields are required' in the step that receives it; it never
\* stands at a store lookup or insert, the store is as it was, and the response
\* holds no token.
C17_InvalidRegisterRejected ==
    [][ \A s \in Slots :
          ( /\ reqs'[s] # reqs[s]
            /\ reqs'[s].route = "register"
            /\ ~ValidRegisterBody(reqs'[s].body) )
          => /\ reqs[s].pc = "idle"
             /\ reqs'[s].pc = "done" /\ reqs'[s].sent = 1
             /\ AllFieldsRequired(reqs'[s])
             /\ ~reqs'[s].g.created
             /\ users' = users ]_vars

\* A register without a password for an address that is already registered was
\* turned away by the validation.
C17_Witness ==
    \E s \in Slots :
        /\ Done(s, "register")
        /\ reqs[s].body.password = Undefined
        /\ Truthy(reqs[s].body.name) /\ EmailKnown(reqs[s].body.email)
        /\ AllFieldsRequired(reqs[s])

PublicFields == {"id", "name", "email"}

\* A user object of a response: public fields only, none holding a password.
PublicUser(u) ==
    /\ DOMAIN u \subseteq PublicFields
    /\ {"name", "email"} \subseteq DOMAIN u
    /\ u.name \notin Passwords /\ u.email \notin Passwords

ErrorBodies ==
    { [message |-> "All fields are required"], [message |-> "Email already in use"],
      [message |-> "Invalid credentials"], [message |-> "Server error"],
      [message |-> "Missing token"], [message |-> "Invalid token"],
      DefaultErrorBody }

\* C20: a successful register or login response is {token, user:{id,name,email}}
\* and the token's payload is {id,name,email,iat,exp}; a successful me response
\* is {user} with the name and email (and the id) of the record; every other
\* response is one of the fixed error bodies.  No field is a passwordHash and
\* none holds a password.
C20_NoSecretInResponse ==
    \A s \in Slots :
        (reqs[s].pc = "done" /\ reqs[s].route \in {"register", "login", "me"}) =>
            IF reqs[s].status = 200 /\ reqs[s].route = "me"
            THEN /\ DOMAIN reqs[s].res = {"user"}
                 /\ PublicUser(reqs[s].res.user)
            ELSE IF reqs[s].status = 200
            THEN /\ DOMAIN reqs[s].res = {"token", "user"}
                 /\ DOMAIN reqs[s].res.user = PublicFields
                 /\ PublicUser(reqs[s].res.user)
                 /\ DOMAIN reqs[s].res.token.payload = PublicFields \cup {"iat", "exp"}
                 /\ PublicUser([f \in PublicFields |-> reqs[s].res.token.payload[f]])
            ELSE reqs[s].res \in ErrorBodies

\* A login and a me request of a registered user have both been answered 200.
C20_Witness ==
    \E s, t \in Slots :
        /\ Done(s, "login") /\ reqs[s].status = 200
        /\ reqs[s].body.password \in Passwords
        /\ Done(t, "me") /\ reqs[t].status = 200

----------------------------------------------------------------------------
(* Properties of the startup *)

IssuedToken(r) == r.route \in {"register", "login"} /\ r.pc = "done" /\ r.status = 200

\* C18: while JWT_SECRET is unset the server is not listening and no response
\* carries a token.
C18_NoSecretNoListen ==
    jwtSecret = Undefined =>
        /\ ~Listening
        /\ \A s \in Slots : ~IssuedToken(reqs[s])

\* C19: the server starts to listen only in a step that leaves the database
\* connected, with a connection string present; a failed connection attempt
\* leaves the process exited with a non-zero code, and an exited process never
\* listens.
C19_ListenOnlyAfterConnect ==
    [][ /\ Listening' => (server'.db = "connected" /\ mongoUri # Undefined)
        /\ server'.db = "failed" => (server'.phase = "exited" /\ server'.code # 0)
        /\ (mongoUri = Undefined /\ server'.phase # "connecting") =>
               (server'.phase = "exited" /\ server'.code # 0)
        /\ server.phase = "exited" => server'.phase = "exited" ]_vars

\* The connection string was absent and the process has exited with code 1.
C19_Witness ==
    /\ mongoUri = Undefined
    /\ server = [phase |-> "exited", db |-> "failed", code |-> 1]

----------------------------------------------------------------------------
(* Properties of the chat relay and of the store *)

\* C21: two chat requests whose provider call failed get the same status and
\* body, whatever the two errors were.
C21_FailureResponseIndependentOfError ==
    \A s, t \in Slots :
        ( /\ Done(s, "chat") /\ ProviderFailed(reqs[s])
          /\ Done(t, "chat") /\ ProviderFailed(reqs[t]) )
        => /\ reqs[s].status = reqs[t].status
           /\ reqs[s].res = reqs[t].res

\* Two failures with different error details have been answered.
C21_Witness ==
    \E s, t \in Slots :
        /\ Done(s, "chat") /\ ProviderFailed(reqs[s])
        /\ Done(t, "chat") /\ ProviderFailed(reqs[t])
        /\ reqs[s].local.error # reqs[t].local.error
        /\ reqs[s].status = 500

\* C22: when the provider answered, the status is 200 and the reply is the text
\* of the first part of the first candidate, or the fallback when there is no
\* first candidate, no first part, or its text is absent or empty.
C22_ReplyIsFirstCandidateText ==
    \A s \in Slots :
        (Done(s, "chat") /\ ~ProviderFailed(reqs[s])) =>
            LET data == reqs[s].local.data
                has == /\ "candidates" \in DOMAIN data
                       /\ data.candidates # <<>>
                       /\ Head(data.candidates).parts # <<>>
                       /\ Head(Head(data.candidates).parts) \notin {Undefined, ""}
            IN  /\ reqs[s].status = 200
                /\ DOMAIN reqs[s].res = {"reply"}
                /\ has => reqs[s].res.reply = Head(Head(data.candidates).parts)
                /\ ~has => reqs[s].res.reply = Fallback

\* An answer with two candidates and two parts was relayed while an answer
\* whose first text is empty was replaced by the fallback.
C22_Witness ==
    \E s, t \in Slots :
        /\ Done(s, "chat") /\ ~ProviderFailed(reqs[s])
        /\ "candidates" \in DOMAIN reqs[s].local.data
        /\ Len(reqs[s].local.data.candidates) = 2
        /\ Len(reqs[s].local.data.candidates[1].parts) = 2
        /\ reqs[s].res.reply = "Save 20% of income."
        /\ Done(t, "chat") /\ ~ProviderFailed(reqs[t])
        /\ reqs[t].local.data = Candidates(<<Candidate(<<"", "Then invest.">>)>>)
        /\ reqs[t].res.reply = Fallback

RegisterSucceeds(s) == Responds(s, "register") /\ reqs'[s].status = 200

\* C23: every record of the store stays as it is; a step in which a register
\* is answered 200 adds exactly one record, and no other step changes the store.
C23_StoreOnlyGrows ==
    [][ /\ \A u \in users : u \in users'
        /\ \A s \in Slots : RegisterSucceeds(s) => Cardinality(users' \ users) = 1
        /\ users' # users => \E s \in Slots : RegisterSucceeds(s) ]_vars

----------------------------------------------------------------------------
(* The chat panel: ChatbotPanel.jsx *)

MaxSends == 3

PanelInputs == {"", "  ", "rent?", "save?"}
PanelReplies == {"Save 20% of income.", Fallback}

\* String.prototype.trim on the inputs above.
Trim(text) == IF text \in {"", "  "} THEN "" ELSE text

UserMessage(text) == [role |-> "user", text |-> text]
BotMessage(text) == [role |-> "bot", text |-> text]

\* useState(""), useState([]), useState(false); calls are the sendMessage
\* invocations that await axios.post, each with the input it captured.
PanelMounted ==
    [name |-> "chat", input |-> "", messages |-> <<>>, loading |-> FALSE,
     calls |-> {}, sends |-> 0, ok |-> 0, failed |-> 0]

InitPanel ==
    /\ users = {}
    /\ reqs = [s \in Slots |-> Idle]
    /\ now = 0
    /\ jwtSecret = "jwt-secret"
    /\ mongoUri = "mongodb://db/finverse"
    /\ server = Connecting
    /\ localToken = Null
    /\ discarded = Null
    /\ page = PanelMounted

\* onChange: setInput(e.target.value)
PanelSetInput(text) ==
    /\ page.name = "chat"
    /\ page.input # text
    /\ page' = [page EXCEPT !.input = text]
    /\ UNCHANGED backend

\* sendMessage up to its await: the guard, the user message, the loading flag.
PanelSendMessage ==
    /\ page.name = "chat"
    /\ page.sends < MaxSends
    /\ Trim(page.input) # ""
    /\ page' = [page EXCEPT
                   !.messages = Append(@, UserMessage(page.input)),
                   !.loading = TRUE,
                   !.calls = @ \cup {[id |-> page.sends + 1, input |-> page.input]},
                   !.sends = @ + 1]
    /\ UNCHANGED backend

\* axios.post resolved: the try block after the await, then finally.
PanelResolved(call, reply) ==
    /\ page.name = "chat"
    /\ call \in page.calls
    /\ page' = [page EXCEPT
                   !.messages = @ \o <<UserMessage(call.input), BotMessage(reply)>>,
                   !.input = "",
                   !.loading = FALSE,
                   !.calls = @ \ {call},
                   !.ok = @ + 1]
    /\ UNCHANGED backend

\* axios.post rejected: the catch block, then finally.
PanelRejected(call) ==
    /\ page.name = "chat"
    /\ call \in page.calls
    /\ page' = [page EXCEPT
                   !.messages = Append(@, BotMessage("Error contacting Gemini API.")),
                   !.loading = FALSE,
                   !.calls = @ \ {call},
                   !.failed = @ + 1]
    /\ UNCHANGED backend

NextPanel ==
    \/ \E text \in PanelInputs : PanelSetInput(text)
    \/ PanelSendMessage
    \/ \E call \in page.calls, reply \in PanelReplies : PanelResolved(call, reply)
    \/ \E call \in page.calls : PanelRejected(call)

SpecPanel == InitPanel /\ [][NextPanel]_vars

(* Properties of the chat panel *)

\* C24: when every send so far has succeeded and none is in flight, the list
\* holds two entries per send, a user message followed by a bot message.
C24_TwoEntriesPerSend ==
    (page.calls = {} /\ page.failed = 0) =>
        /\ Len(page.messages) = 2 * page.ok
        /\ \A i \in 1..Len(page.messages) :
              page.messages[i].role = IF i % 2 = 1 THEN "user" ELSE "bot"

\* C25: the loading flag is true exactly while a chat request is in flight.
C25_LoadingWhileInFlight == page.loading <=> (page.calls # {})

----------------------------------------------------------------------------
(* The browser's API helpers *)

\* Mutant: the header is always attached, as "Bearer null" when nothing is stored.
AuthHeadersAlways ==
    IF localToken # Null
    THEN <<Bearer(localToken),
           TokenInfo("genuine", Age(localToken), "local", localToken.payload.id)>>
    ELSE <<Bearer(Garbage), NoTokenInfo("malformed")>>

\* authHeaders: ...(token ? { Authorization: `Bearer ${token}` } : {})
AuthHeaders ==
    IF localToken # Null
    THEN <<Bearer(localToken),
           TokenInfo("genuine", Age(localToken), "local", localToken.payload.id)>>
    ELSE <<AbsentHeader, NoTokenInfo("none")>>

\* One user's browser: register, login with the right or a wrong password,
\* requests made through the helpers, logout.
NextBrowser ==
    \/ \E resolved \in BOOLEAN : MongooseConnect(resolved)
    \/ \E s \in Slots : RegisterReceive(s, SessionName, SessionEmail, SessionPassword)
    \/ \E s \in Slots : RegisterFindOne(s)
    \/ \E s \in Slots, salt \in Salts : RegisterCreate(s, salt)
    \/ \E s \in Slots, password \in Passwords : LoginReceive(s, SessionEmail, password)
    \/ \E s \in Slots : LoginFindOne(s)
    \/ \E s \in Slots : LoginCompare(s)
    \/ \E s \in Slots : MeReceive(s, AuthHeaders)
    \/ \E s \in Slots : MeFindById(s)
    \/ \E s \in Slots, message \in Messages : ChatReceive(s, AuthHeaders, message)
    \/ \E s \in Slots, outcome \in ProviderOutcomes : ChatUpstream(s, outcome)
    \/ \E s \in Slots : Deliver(s)
    \/ Logout

SpecBrowser == Init /\ [][NextBrowser]_vars

(* Properties of the browser's token *)

\* The response in slot s is handed to the page that asked for it.
Delivered(s) == reqs[s].pc = "done" /\ reqs'[s].pc = "idle"

Credentialed(r) == r.route \in {"register", "login"}

\* A helper request is received in slot s.
HelperRequest(s) == reqs[s].pc = "idle" /\ reqs'[s].route \in {"me", "chat"}

----------------------------------------------------------------------------
(* The budget planner's split: BudgetPlanner.jsx makePlan *)

\* Math.round((Math.random() - 0.5) * 4) lies in -JitterMax..JitterMax
JitterMax == 2

Risks == {"Low", "Moderate", "High"}
Categories == {"Essentials", "Savings", "Investments", "Lifestyle"}
Jitters == [Categories -> -JitterMax..JitterMax]

Max(a, b) == IF a >= b THEN a ELSE b
Min(a, b) == IF a <= b THEN a ELSE b

\* Math.round(n / d) for n >= 0, d > 0: halves round up.
RoundDiv(n, d) == (2 * n + d) \div (2 * d)

Total(plan) ==
    plan["Essentials"] + plan["Savings"] + plan["Investments"] + plan["Lifestyle"]

PlanBase(risk) ==
    IF risk = "Low"
    THEN [c \in Categories |->
             CASE c = "Essentials" -> 55 [] c = "Savings" -> 25
               [] c = "Investments" -> 10 [] c = "Lifestyle" -> 10]
    ELSE IF risk = "High"
    THEN [c \in Categories |->
             CASE c = "Essentials" -> 45 [] c = "Savings" -> 15
               [] c = "Investments" -> 30 [] c = "Lifestyle" -> 10]
    ELSE [c \in Categories |->
             CASE c = "Essentials" -> 50 [] c = "Savings" -> 20
               [] c = "Investments" -> 20 [] c = "Lifestyle" -> 10]

\* The plan after the jitter and the normalisation, before the drift is fixed.
PlanRounded(risk, jit) ==
    LET base == PlanBase(risk)
        jittered == [c \in Categories |-> Max(0, base[c] + jit[c])]
        sum == IF Total(jittered) = 0 THEN 1 ELSE Total(jittered)
    IN  [c \in Categories |-> RoundDiv(100 * jittered[c], sum)]

\* Mutant: the rounding drift is left in.
MakePlanNoDriftFix(risk, jit) == PlanRounded(risk, jit)

MakePlan(risk, jit) ==
    LET plan == PlanRounded(risk, jit)
        drift == 100 - Total(plan)
    IN  IF drift # 0
        THEN [plan EXCEPT !["Essentials"] = Min(100, Max(0, @ + drift))]
        ELSE plan

NoPlan == [c \in Categories |-> 0]

\* A risk level is chosen and Math.random is about to yield one jitter per category.
InitPlan ==
    /\ users = {}
    /\ reqs = [s \in Slots |-> Idle]
    /\ now = 0
    /\ jwtSecret = "jwt-secret"
    /\ mongoUri = "mongodb://db/finverse"
    /\ server = Connecting
    /\ localToken = Null
    /\ discarded = Null
    /\ \E risk \in Risks, jit \in Jitters :
          page = [name |-> "makePlan", risk |-> risk, jit |-> jit,
                  made |-> FALSE, plan |-> NoPlan]

PlanMake ==
    /\ page.name = "makePlan"
    /\ ~page.made
    /\ page' = [page EXCEPT !.made = TRUE, !.plan = MakePlan(page.risk, page.jit)]
    /\ UNCHANGED backend

NextPlan == PlanMake

SpecPlan == InitPlan /\ [][NextPlan]_vars

\* C27: for every risk level and every jitter of -2..2 per category, the four
\* percentages makePlan returns are each between 0 and 100 and sum to 100.
C27_PlanSumsTo100 ==
    page.made =>
        /\ \A c \in Categories : page.plan[c] >= 0 /\ page.plan[c] <= 100
        /\ Total(page.plan) = 100

\* A plan was made whose rounded shares did not sum to 100 before the fix.
C27_Witness ==
    /\ page.made
    /\ Total(PlanRounded(page.risk, page.jit)) # 100
    /\ Total(page.plan) = 100

----------------------------------------------------------------------------
(* The dashboard's load: Dashboard.jsx *)

DataSets == {"summary", "savedPlans", "expensesMonthly", "budgetSaved",
             "taxLatest", "insLatest"}

\* How a getJSON call can end: the body parsed, a status that is not ok or a
\* network error, or the abort at the timeout.
FetchEnds == {"ok", "failed", "timeout"}

\* Promise.all over the six calls: rejected with the first call that rejects,
\* fulfilled when all six are.
PromiseAll(fetch) ==
    IF \E k \in DataSets : fetch[k] \in {"failed", "timeout"} THEN "rejected"
    ELSE IF \A k \in DataSets : fetch[k] = "ok" THEN "fulfilled"
    ELSE "pending"

\* Mutant: every data set is taken from its own call, as with Promise.allSettled.
LoadedDataPerCall(fetch) ==
    [k \in DataSets |-> IF fetch[k] = "ok" THEN "api" ELSE "mock"]

\* Where the six state values come from once load goes on after its await: the
\* try block sets the six answers, the catch block the six mocks.
LoadedData(fetch) ==
    IF PromiseAll(fetch) = "fulfilled"
    THEN [k \in DataSets |-> "api"]
    ELSE [k \in DataSets |-> "mock"]

\* The component has mounted and its effect has called load(): loading is true,
\* the six values are the useState defaults, the six calls are in flight.
DashboardMounted ==
    [name |-> "dashboard", mounted |-> TRUE, loading |-> TRUE,
     data |-> [k \in DataSets |-> "initial"],
     fetch |-> [k \in DataSets |-> "pending"],
     resumed |-> FALSE, wasMounted |-> TRUE]

InitDashboard ==
    /\ users = {}
    /\ reqs = [s \in Slots |-> Idle]
    /\ now = 0
    /\ jwtSecret = "jwt-secret"
    /\ mongoUri = "mongodb://db/finverse"
    /\ server = Connecting
    /\ localToken = Null
    /\ discarded = Null
    /\ page = DashboardMounted

\* One getJSON call settles.
DashFetchSettle(k, end) ==
    /\ page.name = "dashboard"
    /\ page.fetch[k] = "pending"
    /\ page' = [page EXCEPT !.fetch[k] = end]
    /\ UNCHANGED backend

\* load() after its await: try or catch, then finally.
DashLoadResume ==
    /\ page.name = "dashboard"
    /\ ~page.resumed
    /\ PromiseAll(page.fetch) # "pending"
    /\ page' = IF page.mounted
               THEN [page EXCEPT !.resumed = TRUE, !.data = LoadedData(page.fetch),
                                 !.loading = FALSE]
               ELSE [page EXCEPT !.resumed = TRUE, !.wasMounted = FALSE]
    /\ UNCHANGED backend

\* The effect's cleanup: mounted = false
DashUnmount ==
    /\ page.name = "dashboard"
    /\ page.mounted
    /\ page' = [page EXCEPT !.mounted = FALSE]
    /\ UNCHANGED backend

NextDashboard ==
    \/ \E k \in DataSets, end \in FetchEnds : DashFetchSettle(k, end)
    \/ DashLoadResume
    \/ DashUnmount

SpecDashboard == InitDashboard /\ [][NextDashboard]_vars

(* Properties of the dashboard *)

AllFrom(src) == \A k \in DataSets : page.data[k] = src

\* C28: the six data sets are always all defaults, all API answers or all mocks;
\* once load has gone on while the component was mounted they are the mocks if
\* any call failed or timed out and the API answers if all six succeeded, and
\* loading is false; nothing is set while the component is unmounted.
C28_DashboardAllOrNothing ==
    [][ /\ AllFrom("initial")' \/ AllFrom("api")' \/ AllFrom("mock")'
        /\ (page'.resumed /\ page'.wasMounted) =>
               /\ ~page'.loading
               /\ (\E k \in DataSets : page'.fetch[k] \in {"failed", "timeout"})
                      => AllFrom("mock")'
               /\ (\A k \in DataSets : page'.fetch[k] = "ok") => AllFrom("api")'
        /\ ~page.mounted =>
               (page'.data = page.data /\ page'.loading = page.loading) ]_vars

\* Five calls had succeeded and one timed out: the page shows the six mocks.
C28_Witness ==
    /\ page.resumed /\ page.mounted
    /\ Cardinality({k \in DataSets : page.fetch[k] = "ok"}) = 5
    /\ \E k \in DataSets : page.fetch[k] = "timeout"
    /\ AllFrom("mock") /\ ~page.loading

----------------------------------------------------------------------------
(* Saved forecasts and saved investment plans: BudgetPlanner.jsx, Insurance.jsx *)

\* [entry, ...s].slice(0, 8) and [{...plan, id}, ...s].slice(0, 10)
ForecastCap == 8
PlanCap == 10

MaxGenerations == 3
MaxSaves == 12

Incomes == {"", "0", "5000"}

\* !income || Number(income) <= 0
IncomeMissing(income) == income \in {"", "0"}

\* Mutant: the list is not cut.
SaveEntryNoSlice(saved, entry, cap) == <<entry>> \o saved

\* [entry, ...saved].slice(0, cap)
SaveEntry(saved, entry, cap) ==
    LET all == <<entry>> \o saved
    IN  SubSeq(all, 1, Min(cap, Len(all)))

\* The page as mounted with nothing stored: no forecast (0), no timer pending.
\* A forecast is named by the number of its generation; an entry keeps the
\* forecast it copied and the number of the save that made it.
PlannerMounted(name, cap) ==
    [name |-> name, cap |-> cap, income |-> "", forecast |-> 0, generated |-> 0,
     timers |-> 0, loading |-> FALSE, saved |-> <<>>, saves |-> 0, last |-> "mount"]

InitSaved ==
    /\ users = {}
    /\ reqs = [s \in Slots |-> Idle]
    /\ now = 0
    /\ jwtSecret = "jwt-secret"
    /\ mongoUri = "mongodb://db/finverse"
    /\ server = Connecting
    /\ localToken = Null
    /\ discarded = Null
    /\ page \in {PlannerMounted("budget", ForecastCap),
                  PlannerMounted("investments", PlanCap)}

OnPlanner == page.name \in {"budget", "investments"}

PlannerSetIncome(income) ==
    /\ page.name = "budget"
    /\ page.income # income
    /\ page' = [page EXCEPT !.income = income, !.last = "income"]
    /\ UNCHANGED backend

\* setLoading(true); setTimeout(...)
StartTimer(pg, op) ==
    [pg EXCEPT !.timers = @ + 1, !.loading = TRUE, !.last = op]

\* generate (which returns when the income is missing), goGenerate
PlannerGenerate ==
    /\ OnPlanner
    /\ page.generated + page.timers < MaxGenerations
    /\ page' = IF page.name = "budget" /\ IncomeMissing(page.income)
               THEN [page EXCEPT !.last = "generate refused"]
               ELSE StartTimer(page, "generate")
    /\ UNCHANGED backend

\* regenerate: without a forecast the budget planner calls generate; the
\* investment planner always calls goGenerate.
PlannerRegenerate ==
    /\ OnPlanner
    /\ page.generated + page.timers < MaxGenerations
    /\ page' = IF page.name = "budget" /\ page.forecast = 0
                  /\ IncomeMissing(page.income)
               THEN [page EXCEPT !.last = "generate refused"]
               ELSE StartTimer(page, "regenerate")
    /\ UNCHANGED backend

\* The timeout's callback: setForecast / setPlan, setLoading(false)
PlannerTimerFires ==
    /\ OnPlanner
    /\ page.timers > 0
    /\ page' = [page EXCEPT !.timers = @ - 1, !.generated = @ + 1,
                             !.forecast = page.generated + 1,
                             !.loading = FALSE, !.last = "forecast"]
    /\ UNCHANGED backend

\* saveForecast, saveCurrent
PlannerSave ==
    /\ OnPlanner
    /\ page.saves < MaxSaves
    /\ page' = IF page.forecast = 0
               THEN [page EXCEPT !.last = "save refused"]
               ELSE [page EXCEPT
                        !.saved = SaveEntry(@, [n |-> page.saves + 1,
                                                forecast |-> page.forecast],
                                            page.cap),
                        !.saves = @ + 1,
                        !.last = "save"]
    /\ UNCHANGED backend

NextSaved ==
    \/ \E income \in Incomes : PlannerSetIncome(income)
    \/ PlannerGenerate
    \/ PlannerRegenerate
    \/ PlannerTimerFires
    \/ PlannerSave

SpecSaved == InitSaved /\ [][NextSaved]_vars

(* Properties of the saved lists *)

NewestFirst(saved) ==
    \A i, j \in 1..Len(saved) :
        i < j => (saved[i].n > saved[j].n /\ saved[i].forecast >= saved[j].forecast)

\* C29: the saved list holds at most 8 forecasts (10 investment plans), newest
\* first; a save without a current forecast leaves it as it is; a save puts the
\* copy of the current forecast in front, and at capacity the last, oldest
\* entry is dropped; nothing but a save changes the list.
C29_SavedListBounded ==
    [][ /\ Len(page'.saved) <= (IF page'.name = "budget" THEN 8 ELSE 10)
        /\ NewestFirst(page'.saved)
        /\ page'.last = "save refused" => (page.forecast = 0 /\ page'.saved = page.saved)
        /\ page'.last = "save" =>
               /\ page.forecast # 0
               /\ Head(page'.saved).forecast = page.forecast
               /\ Tail(page'.saved) =
                      IF Len(page.saved) = (IF page.name = "budget" THEN 8 ELSE 10)
                      THEN SubSeq(page.saved, 1, Len(page.saved) - 1)
                      ELSE page.saved
        /\ page'.last \notin {"save", "save refused"} => page'.saved = page.saved ]_vars

\* A save at capacity has just dropped the oldest entry of a full list.
C29_Witness ==
    /\ page.last = "save"
    /\ Len(page.saved) = page.cap
    /\ page.saves > page.cap
    /\ page.saved[page.cap].n = page.saves - page.cap + 1

----------------------------------------------------------------------------
(* Tax estimate: TaxFiling.jsx *)
(* Amounts of income and deduction are whole dollars; a rate is held in      *)
(* percent, so that a tax is held in hundredths of a dollar.                 *)

FilingStatuses == {"single", "married", "hoh"}
Regimes == {"standard", "itemized"}

STD_DEDUCTION_2024 == [single |-> 14600, married |-> 29200, hoh |-> 21900]

\* The upper limit of the last bracket: larger than every amount considered.
Infinity == 2000000000

Bracket(upTo, rate) == [upTo |-> upTo, rate |-> rate]

BRACKETS_2024 ==
    [single |-> << Bracket(11600, 10), Bracket(47150, 12), Bracket(100525, 22),
                   Bracket(191950, 24), Bracket(243725, 32), Bracket(609350, 35),
                   Bracket(Infinity, 37) >>,
     married |-> << Bracket(23200, 10), Bracket(94300, 12), Bracket(201050, 22),
                    Bracket(383900, 24), Bracket(487450, 32), Bracket(731200, 35),
                    Bracket(Infinity, 37) >>,
     hoh |-> << Bracket(16550, 10), Bracket(63100, 12), Bracket(100500, 22),
                Bracket(191950, 24), Bracket(243700, 32), Bracket(609350, 35),
                Bracket(Infinity, 37) >>]

MaxIncome == 1000000

\* The text of a number field: a sign and decimal digits; no digits when empty.
NoText == [neg |-> FALSE, digits |-> <<>>]

RECURSIVE DigitsOf(_)
DigitsOf(n) == IF n < 10 THEN <<n>> ELSE Append(DigitsOf(n \div 10), n % 10)

\* What the field holds after the amount n has been typed.
Typed(n) == IF n < 0 THEN [neg |-> TRUE, digits |-> DigitsOf(-n)]
                     ELSE [neg |-> FALSE, digits |-> DigitsOf(n)]

RECURSIVE DigitsValue(_)
DigitsValue(ds) ==
    IF ds = <<>> THEN 0
    ELSE 10 * DigitsValue(SubSeq(ds, 1, Len(ds) - 1)) + ds[Len(ds)]

\* Number(text) || 0
NumberOrZero(text) ==
    IF text.neg THEN -DigitsValue(text.digits) ELSE DigitsValue(text.digits)

\* Infinity - prev is Infinity
Minus(a, b) == IF a = Infinity THEN Infinity ELSE a - b

\* Mutant: prev is not advanced to the bracket's limit.
RECURSIVE TaxLoopNoPrev(_, _, _, _, _)
TaxLoopNoPrev(brackets, i, remaining, prev, t) ==
    IF i > Len(brackets) \/ remaining <= 0 THEN t
    ELSE LET b == brackets[i]
             span == Min(remaining, Minus(b.upTo, prev))
         IN  TaxLoopNoPrev(brackets, i + 1, remaining - span, prev, t + span * b.rate)

\* for (const b of brackets) { if (remaining <= 0) break; ... }
RECURSIVE TaxLoop(_, _, _, _, _)
TaxLoop(brackets, i, remaining, prev, t) ==
    IF i > Len(brackets) \/ remaining <= 0 THEN t
    ELSE LET b == brackets[i]
             span == Min(remaining, Minus(b.upTo, prev))
         IN  TaxLoop(brackets, i + 1, remaining - span, b.upTo, t + span * b.rate)

\* The derived values of the useMemo
Derived(filingStatus, regime, income, itemized) ==
    LET gross == NumberOrZero(income)
        item == NumberOrZero(itemized)
        deduction == IF regime = "standard" THEN STD_DEDUCTION_2024[filingStatus]
                                            ELSE Max(0, item)
        txbl == Max(0, gross - deduction)
    IN  [taxable |-> txbl,
         tax |-> TaxLoop(BRACKETS_2024[filingStatus], 1, txbl, 0, 0),
         deductionUsed |-> deduction]

\* Incomes around every point where the estimate changes its slope.
Limits(status) ==
    {BRACKETS_2024[status][i].upTo : i \in 1..Len(BRACKETS_2024[status])} \ {Infinity}

Nearby == {-1, 0, 1}

ItemizedAmounts == {-500, 0, 20000}

IncomeAmounts ==
    {0, 1, MaxIncome}
    \cup UNION {Limits(s) : s \in FilingStatuses}
    \cup {STD_DEDUCTION_2024[s] + d : s \in FilingStatuses, d \in Nearby}
    \cup UNION {{STD_DEDUCTION_2024[s] + l + d : l \in Limits(s), d \in Nearby} :
                    s \in FilingStatuses}
    \cup {a + l + d : a \in ItemizedAmounts \cap Nat, l \in Limits("single"), d \in Nearby}

MaxAudit == 2

\* addAudit: the entry goes in front of the log (its time is left out).
AddAudit(audit, event, detail) == <<[event |-> event, detail |-> detail]>> \o audit

\* The page after a render; meant holds the amounts the texts stand for.
TaxPage(filingStatus, regime, income, itemized, meant, audit) ==
    [name |-> "tax", filingStatus |-> filingStatus, regime |-> regime,
     income |-> income, itemized |-> itemized, meant |-> meant, audit |-> audit,
     derived |-> Derived(filingStatus, regime, income, itemized)]

InitTax ==
    /\ users = {}
    /\ reqs = [s \in Slots |-> Idle]
    /\ now = 0
    /\ jwtSecret = "jwt-secret"
    /\ mongoUri = "mongodb://db/finverse"
    /\ server = Connecting
    /\ localToken = Null
    /\ discarded = Null
    /\ page = TaxPage("single", "standard", NoText, NoText,
                      [income |-> 0, itemized |-> 0], <<>>)

TaxSetFilingStatus(status) ==
    /\ page.name = "tax"
    /\ page.filingStatus # status
    /\ Len(page.audit) < MaxAudit
    /\ page' = TaxPage(status, page.regime, page.income, page.itemized, page.meant,
                       AddAudit(page.audit, "set_filing_status", status))
    /\ UNCHANGED backend

TaxSetRegime(regime) ==
    /\ page.name = "tax"
    /\ page.regime # regime
    /\ Len(page.audit) < MaxAudit
    /\ page' = TaxPage(page.filingStatus, regime, page.income, page.itemized, page.meant,
                       AddAudit(page.audit, "set_deduction_mode", regime))
    /\ UNCHANGED backend

TaxSetIncome(amount) ==
    /\ page.name = "tax"
    /\ page.income # Typed(amount)
    /\ page' = TaxPage(page.filingStatus, page.regime, Typed(amount), page.itemized,
                       [page.meant EXCEPT !.income = amount], page.audit)
    /\ UNCHANGED backend

TaxSetItemized(amount) ==
    /\ page.name = "tax"
    /\ page.itemized # Typed(amount)
    /\ page' = TaxPage(page.filingStatus, page.regime, page.income, Typed(amount),
                       [page.meant EXCEPT !.itemized = amount], page.audit)
    /\ UNCHANGED backend

NextTax ==
    \/ \E status \in FilingStatuses : TaxSetFilingStatus(status)
    \/ \E regime \in Regimes : TaxSetRegime(regime)
    \/ \E amount \in IncomeAmounts : TaxSetIncome(amount)
    \/ \E amount \in ItemizedAmounts : TaxSetItemized(amount)

SpecTax == InitTax /\ [][NextTax]_vars

(* Properties of the tax estimate *)

\* The part of the amount that lies between the limits lower and upper.
Slice(amount, lower, upper) == Max(0, Min(amount, upper) - lower)

RECURSIVE SumOfSlices(_, _, _)
SumOfSlices(brackets, i, amount) ==
    IF i = 0 THEN 0
    ELSE SumOfSlices(brackets, i - 1, amount)
         + brackets[i].rate * Slice(amount,
                                    IF i = 1 THEN 0 ELSE brackets[i - 1].upTo,
                                    brackets[i].upTo)

DeductionMeant ==
    IF page.regime = "standard"
    THEN (IF page.filingStatus = "single" THEN 14600
          ELSE IF page.filingStatus = "married" THEN 29200 ELSE 21900)
    ELSE Max(0, page.meant.itemized)

\* C30: for every filing status, deduction mode and whole-dollar income the
\* taxable income is max(0, income - deduction), the tax is the sum over the
\* brackets of rate times the slice of taxable income inside the bracket, and
\* the tax is 0 when the income does not exceed the deduction.
C30_ProgressiveTax ==
    page.name = "tax" =>
        /\ page.derived.taxable = Max(0, page.meant.income - DeductionMeant)
        /\ page.derived.tax = SumOfSlices(BRACKETS_2024[page.filingStatus], 7,
                                          page.derived.taxable)
        /\ page.meant.income <= DeductionMeant => page.derived.tax = 0

\* An itemized estimate whose taxable income reaches into the third bracket.
C30_Witness ==
    /\ page.name = "tax"
    /\ page.regime = "itemized"
    /\ page.meant.itemized > 0
    /\ page.derived.taxable > BRACKETS_2024[page.filingStatus][2].upTo
    /\ page.derived.tax > 0

====
